---- MODULE Spec2Model ----
(***************************************************************************)
(* Model of the GitHub Repo Dates content script (src/content.js): the     *)
(* GitHubRepoDates object, the host page it runs in (location, document)   *)
(* and the REST API it calls.                                              *)
(*                                                                         *)
(* One macrotask of the page's event loop is one action: a navigation of   *)
(* the host page, a navigation event, the 300 ms timer of handlePageLoad,  *)
(* the settling of one fetch (with the continuation of the async function  *)
(* up to its next await), one 200 ms tick of a displayDateInfo retry loop. *)
(***************************************************************************)
EXTENDS Integers, Sequences, FiniteSets, Bags, TLC

VARIABLES
  pathname,           \* window.location.pathname, a sequence of tokens
  sidebar,            \* the document has an element one of sidebarSelectors matches
  dom,                \* the elements matching "#repo-dates-extension, .repo-dates-extension"
  cachedData,         \* this.cachedData: Map key -> dates
  currentlyLoading,   \* this.currentlyLoading
  lastProcessedPath,  \* this.lastProcessedPath
  timers,             \* pending setTimeout callbacks of handlePageLoad
  loads,              \* the bag of loadRepoData invocations suspended at an await
  loops,              \* the bag of displayDateInfo retry loops waiting for their 200 ms timer
  unhandled,          \* a rejection of loadRepoData reached the host page
  last                \* the macrotask that ran last and what it did

vars == <<pathname, sidebar, dom, cachedData, currentlyLoading, lastProcessedPath,
          timers, loads, loops, unhandled, last>>

(***************************************************************************)
(* Bounds of the model.                                                    *)
(***************************************************************************)
MaxTimers == 2   \* pending handlePageLoad timers
MaxLoads == 2    \* loadRepoData invocations in flight
MaxLoops == 2    \* displayDateInfo retry loops alive

(***************************************************************************)
(* Values.  null/undefined of a timestamp is 0, of a key or a path <<>>.   *)
(***************************************************************************)
NULL == 0
NoKey == <<>>
NoPath == <<>>

\* A pathname is a sequence of tokens: "/", ".", or a word free of both.
PathAX == <<"/", "a", "/", "x">>
PathAXTree == <<"/", "a", "/", "x", "/", "tree", "/", "main">>
PathAXIssues == <<"/", "a", "/", "x", "/", "issues">>
PathBY == <<"/", "b", "/", "y">>
Paths == {PathAX, PathAXIssues, PathBY}

(***************************************************************************)
(* Page context: path.split("/").filter(part => part), isRepoPage,         *)
(* isCodeTab, getRepoInfo.                                                 *)
(***************************************************************************)
RECURSIVE SplitAcc(_, _, _)
SplitAcc(path, cur, acc) ==
  IF path = <<>> THEN Append(acc, cur)
  ELSE IF Head(path) = "/" THEN SplitAcc(Tail(path), <<>>, Append(acc, cur))
  ELSE SplitAcc(Tail(path), Append(cur, Head(path)), acc)

\* path.split("/")
Split(path) == SplitAcc(path, <<>>, <<>>)

\* .filter((part) => part): the empty string is falsy
FilterParts(parts) == SelectSeq(parts, LAMBDA part : part # <<>>)

PathParts(path) == FilterParts(Split(path))

ReservedOwners ==
  {<<"settings">>, <<"notifications">>, <<"explore">>, <<"marketplace">>, <<"pricing">>}

\* isRepoPage without the startsWith(".") test
isRepoPageDotted(path) ==
  LET pathParts == PathParts(path) IN
    /\ Len(pathParts) >= 2
    /\ pathParts[1] \notin ReservedOwners

isRepoPage(path) ==
  LET pathParts == PathParts(path) IN
    /\ Len(pathParts) >= 2
    /\ Head(pathParts[1]) # "."
    /\ pathParts[1] \notin ReservedOwners

NonCodeTabs ==
  {<<"issues">>, <<"pull">>, <<"actions">>, <<"projects">>, <<"security">>,
   <<"insights">>, <<"settings">>}

\* isCodeTab reading the second segment instead of the third
isCodeTabSecond(path) ==
  LET pathParts == PathParts(path) IN
    IF Len(pathParts) = 2 THEN TRUE
    ELSE IF Len(pathParts) > 2 /\ pathParts[2] = <<"tree">> THEN TRUE
    ELSE IF Len(pathParts) > 2 /\ pathParts[2] = <<"blob">> THEN FALSE
    ELSE IF Len(pathParts) > 2 /\ pathParts[2] \in NonCodeTabs THEN FALSE
    ELSE TRUE

isCodeTab(path) ==
  LET pathParts == PathParts(path) IN
    IF Len(pathParts) = 2 THEN TRUE
    ELSE IF Len(pathParts) > 2 /\ pathParts[3] = <<"tree">> THEN TRUE
    ELSE IF Len(pathParts) > 2 /\ pathParts[3] = <<"blob">> THEN FALSE
    ELSE IF Len(pathParts) > 2 /\ pathParts[3] \in NonCodeTabs THEN FALSE
    ELSE TRUE

NoRepoInfo == [owner |-> <<>>, repo |-> <<>>, key |-> NoKey]

getRepoInfo(path) ==
  LET pathParts == PathParts(path) IN
    IF Len(pathParts) >= 2
      THEN [owner |-> pathParts[1], repo |-> pathParts[2],
            key |-> pathParts[1] \o <<"/">> \o pathParts[2]]
      ELSE NoRepoInfo

KeyOf(path) == getRepoInfo(path).key

Keys == {KeyOf(p) : p \in {q \in Paths : Len(PathParts(q)) >= 2}}

(***************************************************************************)
(* The REST API.  A settled fetch is a record: net is FALSE when the fetch *)
(* promise rejects (transport failure); json is FALSE when response.json() *)
(* rejects; commits lists commit.committer.date newest first; link is the  *)
(* Link header, a sequence of links, <<>> when the header is missing.      *)
(***************************************************************************)
Times == {1, 2}

CreatedA == 11
CreatedB == 12

\* created_at of GET /repos/{owner}/{repo}
CreatedOf(key) == IF key = KeyOf(PathAX) THEN CreatedA ELSE CreatedB

perPage == 100

Resp(net, status, json, created, commits, link) ==
  [net |-> net, status |-> status, json |-> json, created_at |-> created,
   commits |-> commits, link |-> link]

\* response.ok
Ok(resp) == resp.status >= 200 /\ resp.status <= 299

NetworkError == Resp(FALSE, 0, FALSE, NULL, <<>>, <<>>)
HttpError(status) == Resp(TRUE, status, FALSE, NULL, <<>>, <<>>)
BadBody == Resp(TRUE, 200, FALSE, NULL, <<>>, <<>>)
RepoBody(key) == Resp(TRUE, 200, TRUE, CreatedOf(key), <<>>, <<>>)
CommitsBody(commits, link) == Resp(TRUE, 200, TRUE, NULL, commits, link)

Param(name, value) == [name |-> name, value |-> value]
Link(params, rel) == [params |-> params, rel |-> rel]

\* <...?per_page=100&page=n>; rel="last", as GitHub writes it
LastLinkPerPageFirst(n) == Link(<<Param("per_page", perPage), Param("page", n)>>, "last")
\* <...?page=n&per_page=100>; rel="last"
LastLinkPageFirst(n) == Link(<<Param("page", n), Param("per_page", perPage)>>, "last")
\* <...?page=n>; rel="last"
LastLinkPageOnly(n) == Link(<<Param("page", n)>>, "last")
NextLink == Link(<<Param("page", 2), Param("per_page", perPage)>>, "next")

(***************************************************************************)
(* fetchCommitsData.  Each step takes the settled fetch it awaited and     *)
(* gives what the function does next: "return" a {firstCommit, lastCommit} *)
(* value, "throw", or "await" its next request.                            *)
(***************************************************************************)
Return(firstCommit, lastCommit) ==
  [kind |-> "return", firstCommit |-> firstCommit, lastCommit |-> lastCommit, page |-> 0]
Throw == [kind |-> "throw", firstCommit |-> NULL, lastCommit |-> NULL, page |-> 0]
Await(firstCommit, lastCommit, page) ==
  [kind |-> "await", firstCommit |-> firstCommit, lastCommit |-> lastCommit, page |-> page]

\* linkHeader && linkHeader.includes('rel="last"')
HasRelLast(link) == \E i \in DOMAIN link : link[i].rel = "last"

\* the text "page=" followed by digits occurs in a parameter named page or per_page
PageNames == {"page", "per_page"}

NoMatch == 0

\* linkHeader.match(/page=(\d+)[^>]*>; rel="last"/): the leftmost match starts at
\* the first "page=<digits>" of the first link that rel="last" follows, since
\* [^>]* cannot leave the link's <...>; parseInt of the captured digits.
LastMatch(link) ==
  LET lasts == {i \in DOMAIN link : link[i].rel = "last"
                  /\ \E j \in DOMAIN link[i].params : link[i].params[j].name \in PageNames}
  IN IF lasts = {} THEN NoMatch
     ELSE LET i == CHOOSE m \in lasts : \A n \in lasts : m <= n
              ps == link[i].params
              js == {j \in DOMAIN ps : ps[j].name \in PageNames}
              j == CHOOSE m \in js : \A n \in js : m <= n
          IN ps[j].value

\* the per_page=1 request settled, firstCommitDate left unset
LatestStepNoDefault(resp) ==
  IF ~resp.net THEN Throw
  ELSE IF ~Ok(resp)
    THEN IF resp.status \in {403, 404, 409} THEN Return(NULL, NULL) ELSE Throw
  ELSE IF ~resp.json THEN Throw
  ELSE IF Len(resp.commits) = 0 THEN Return(NULL, NULL)
  ELSE Await(NULL, resp.commits[1], 1)

\* the per_page=1 request settled
LatestStep(resp) ==
  IF ~resp.net THEN Throw
  ELSE IF ~Ok(resp)
    THEN IF resp.status = 404 \/ resp.status = 409 THEN Return(NULL, NULL)
         ELSE IF resp.status = 403 THEN Return(NULL, NULL)
         ELSE Throw
  ELSE IF ~resp.json THEN Throw
  ELSE IF Len(resp.commits) = 0 THEN Return(NULL, NULL)
  ELSE Await(resp.commits[1], resp.commits[1], 1)

\* the per_page=100&page=1 request settled, the page's first entry taken as the oldest
FirstPageStepNewest(firstCommitDate, lastCommitDate, resp) ==
  IF ~resp.net THEN Throw
  ELSE IF ~Ok(resp) THEN Return(lastCommitDate, lastCommitDate)
  ELSE IF ~resp.json THEN Throw
  ELSE IF HasRelLast(resp.link)
    THEN IF LastMatch(resp.link) # NoMatch
           THEN Await(firstCommitDate, lastCommitDate, LastMatch(resp.link))
           ELSE Return(firstCommitDate, lastCommitDate)
  ELSE IF Len(resp.commits) > 1
    THEN Return(resp.commits[1], lastCommitDate)
  ELSE Return(firstCommitDate, lastCommitDate)

\* the per_page=100&page=1 request settled
FirstPageStep(firstCommitDate, lastCommitDate, resp) ==
  IF ~resp.net THEN Throw
  ELSE IF ~Ok(resp) THEN Return(lastCommitDate, lastCommitDate)
  ELSE IF ~resp.json THEN Throw
  ELSE IF HasRelLast(resp.link)
    THEN IF LastMatch(resp.link) # NoMatch
           THEN Await(firstCommitDate, lastCommitDate, LastMatch(resp.link))
           ELSE Return(firstCommitDate, lastCommitDate)
  ELSE IF Len(resp.commits) > 1
    THEN Return(resp.commits[Len(resp.commits)], lastCommitDate)
  ELSE Return(firstCommitDate, lastCommitDate)

\* the per_page=100&page=${lastPage} request settled, without the inner try
LastPageStepUncaught(firstCommitDate, lastCommitDate, resp) ==
  IF ~resp.net THEN Throw
  ELSE IF Ok(resp)
    THEN IF ~resp.json THEN Throw
         ELSE IF Len(resp.commits) > 0
           THEN Return(resp.commits[Len(resp.commits)], lastCommitDate)
         ELSE Return(firstCommitDate, lastCommitDate)
  ELSE Return(firstCommitDate, lastCommitDate)

\* the per_page=100&page=${lastPage} request settled, inside the inner try
LastPageStep(firstCommitDate, lastCommitDate, resp) ==
  IF ~resp.net THEN Return(firstCommitDate, lastCommitDate)
  ELSE IF Ok(resp)
    THEN IF ~resp.json THEN Return(firstCommitDate, lastCommitDate)
         ELSE IF Len(resp.commits) > 0
           THEN Return(resp.commits[Len(resp.commits)], lastCommitDate)
         ELSE Return(firstCommitDate, lastCommitDate)
  ELSE Return(firstCommitDate, lastCommitDate)

\* fetchCommitsData without its catch: what is thrown inside reaches the caller
CatchCommitsMissing(res) == res

\* catch (error) { return { firstCommit: null, lastCommit: null } }
CatchCommits(res) == IF res.kind = "throw" THEN Return(NULL, NULL) ELSE res

\* one step of fetchCommitsData of a suspended invocation l
CommitsStep(l, resp) ==
  CatchCommits(
    IF l.pc = "latest" THEN LatestStep(resp)
    ELSE IF l.pc = "firstPage" THEN FirstPageStep(l.firstCommitDate, l.lastCommitDate, resp)
    ELSE LastPageStep(l.firstCommitDate, l.lastCommitDate, resp))

(***************************************************************************)
(* fetchRepoData: throws on a rejected fetch, on !response.ok and on a     *)
(* body that does not parse; otherwise gives repoData.                     *)
(***************************************************************************)
fetchRepoData(resp) ==
  IF ~resp.net THEN Throw
  ELSE IF ~Ok(resp) THEN Throw
  ELSE IF ~resp.json THEN Throw
  ELSE [kind |-> "return", firstCommit |-> NULL, lastCommit |-> NULL, page |-> 0]

(***************************************************************************)
(* Rendering.  A fragment is the element createGitHubStyleContainer builds *)
(* from dates; rows is "dates" for the three date rows, "warning" for the  *)
(* single row displayError writes.                                         *)
(***************************************************************************)
\* bags of suspended invocations and of retry loops
Put(bag, e) == bag (+) SetToBag({e})
Take(bag, e) == bag (-) SetToBag({e})

Dates(createdAt, firstCommit, lastCommit) ==
  [createdAt |-> createdAt, firstCommit |-> firstCommit, lastCommit |-> lastCommit]

NullDates == Dates(NULL, NULL, NULL)

\* new Date(), in seconds since the epoch
Now == 70000000

\* a text without a number, and the text `${n}unit`
Plain(text) == [n |-> 0, unit |-> text]
Ago(n, unit) == [n |-> n, unit |-> unit]

\* formatDate(dateString): "N/A", or the en-US rendering of that instant
formatDate(dateString) ==
  IF dateString = NULL THEN Plain("N/A") ELSE Ago(dateString, "en-US")

\* getTimeAgo with <= in place of <
getTimeAgoInclusive(dateString) ==
  IF dateString = NULL THEN Plain("N/A")
  ELSE LET diffInSeconds == Now - dateString IN
    IF diffInSeconds <= 60 THEN Plain("just now")
    ELSE IF diffInSeconds <= 3600 THEN Ago(diffInSeconds \div 60, "m ago")
    ELSE IF diffInSeconds <= 86400 THEN Ago(diffInSeconds \div 3600, "h ago")
    ELSE IF diffInSeconds <= 2592000 THEN Ago(diffInSeconds \div 86400, "d ago")
    ELSE IF diffInSeconds <= 31536000 THEN Ago(diffInSeconds \div 2592000, "mo ago")
    ELSE Ago(diffInSeconds \div 31536000, "y ago")

\* getTimeAgo(dateString); \div is Math.floor of the quotient
getTimeAgo(dateString) ==
  IF dateString = NULL THEN Plain("N/A")
  ELSE LET diffInSeconds == Now - dateString IN
    IF diffInSeconds < 60 THEN Plain("just now")
    ELSE IF diffInSeconds < 3600 THEN Ago(diffInSeconds \div 60, "m ago")
    ELSE IF diffInSeconds < 86400 THEN Ago(diffInSeconds \div 3600, "h ago")
    ELSE IF diffInSeconds < 2592000 THEN Ago(diffInSeconds \div 86400, "d ago")
    ELSE IF diffInSeconds < 31536000 THEN Ago(diffInSeconds \div 2592000, "mo ago")
    ELSE Ago(diffInSeconds \div 31536000, "y ago")

\* createGitHubStyleDateElement(label, dateString, iconSvg): the title and the
\* text of the value span
createGitHubStyleDateElement(dateString) ==
  [title |-> formatDate(dateString), text |-> getTimeAgo(dateString)]

createGitHubStyleContainer(dates) ==
  [dates |-> dates, rows |-> "dates",
   cells |-> [f \in {"createdAt", "firstCommit", "lastCommit"} |->
                createGitHubStyleDateElement(dates[f])]]

maxAttempts == 10

\* insertIntoSidebar without its getElementById check
insertIntoSidebarUnchecked(d, sb, dates) ==
  IF sb
    THEN [dom |-> Append(d, createGitHubStyleContainer(dates)), ok |-> TRUE,
          how |-> "inserted"]
  ELSE [dom |-> d, ok |-> FALSE, how |-> "noanchor"]

\* insertIntoSidebar(dates) on document d: the document after it, and its result
insertIntoSidebar(d, sb, dates) ==
  IF d # <<>> THEN [dom |-> d, ok |-> TRUE, how |-> "present"]
  ELSE IF sb
    THEN [dom |-> <<createGitHubStyleContainer(dates)>>, ok |-> TRUE, how |-> "inserted"]
  ELSE [dom |-> d, ok |-> FALSE, how |-> "noanchor"]

\* displayDateInfo(dates): the first tryInsert, and the retry loop it may leave
displayDateInfo(d, sb, lp, dates) ==
  LET r == insertIntoSidebar(d, sb, dates) IN
    IF r.ok \/ 0 >= maxAttempts
      THEN [dom |-> r.dom, loops |-> lp, how |-> r.how]
      ELSE [dom |-> r.dom, loops |-> Put(lp, [dates |-> dates, attempts |-> 1]),
            how |-> r.how]

\* displayError(): the container with the warning row is built and dropped;
\* insertIntoSidebar is called once with null dates
displayError(d, sb, lp) ==
  LET r == insertIntoSidebar(d, sb, NullDates) IN
    [dom |-> r.dom, loops |-> lp, how |-> r.how]

\* a removePreviousDateInfo that removes nothing
removePreviousDateInfoKeeps(d) == d

\* removePreviousDateInfo()
removePreviousDateInfo(d) == <<>>

(***************************************************************************)
(* What the API may answer to the request an invocation awaits.  The page  *)
(* specification draws from few answers of every kind; the resolver        *)
(* specification draws from all of them.                                   *)
(***************************************************************************)
MaxCommits == 2   \* entries of one page of commits

LastPages == {2, 5}

CommitLists == UNION {[1..n -> Times] : n \in 0..MaxCommits}

LinkHeaders ==
  {<<>>, <<NextLink>>}
    \cup {<<NextLink, LastLinkPerPageFirst(n)>> : n \in LastPages}
    \cup {<<NextLink, LastLinkPageFirst(n)>> : n \in LastPages}
    \cup {<<LastLinkPageOnly(n)>> : n \in LastPages}

Failures == {NetworkError, BadBody} \cup {HttpError(s) : s \in {403, 404, 409, 500}}

AllResponses(l) ==
  IF l.pc \in {"fetchRepoData", "fallback"} THEN Failures \cup {RepoBody(l.repoInfo.key)}
  ELSE IF l.pc = "latest"
    THEN Failures \cup {CommitsBody(c, <<>>) : c \in {d \in CommitLists : Len(d) <= 1}}
  ELSE IF l.pc = "firstPage"
    THEN Failures \cup {CommitsBody(c, lk) : c \in CommitLists, lk \in LinkHeaders}
  ELSE Failures \cup {CommitsBody(c, <<>>) : c \in CommitLists}

PageResponses(l) ==
  IF l.pc \in {"fetchRepoData", "fallback"} THEN {HttpError(403), RepoBody(l.repoInfo.key)}
  ELSE IF l.pc = "latest" THEN {HttpError(403), CommitsBody(<<2>>, <<>>)}
  ELSE IF l.pc = "firstPage"
    THEN {CommitsBody(<<2, 1>>, <<>>),
          CommitsBody(<<2, 2>>, <<NextLink, LastLinkPageFirst(2)>>)}
  ELSE {CommitsBody(<<1>>, <<>>)}

(***************************************************************************)
(* State.                                                                  *)
(***************************************************************************)
NoResp == Resp(FALSE, -1, FALSE, NULL, <<>>, <<>>)
NoRes == [kind |-> "none", firstCommit |-> NULL, lastCommit |-> NULL, page |-> 0]

\* op: the macrotask; what: the branch it took; key, pc, resp, res: of a settled
\* fetch, the invocation's key, the await it was at, the answer and what the
\* awaiting function did with it
Did(op, what, key, pc, resp, res) ==
  [op |-> op, what |-> what, key |-> key, pc |-> pc, resp |-> resp, res |-> res]

\* the object after new GitHubRepoDates(): init() has called handlePageLoad()
Constructed ==
  /\ sidebar \in BOOLEAN
  /\ dom = <<>>
  /\ cachedData = <<>>
  /\ currentlyLoading = NoKey
  /\ lastProcessedPath = NoPath
  /\ timers = 1
  /\ loads = EmptyBag
  /\ loops = EmptyBag
  /\ unhandled = FALSE
  /\ last = Did("init", "", NoKey, "", NoResp, NoRes)

Init == pathname \in Paths /\ Constructed


\* a cache check that never hits
cacheHasNever(cache, key) == FALSE

\* this.cachedData.has(key)
cacheHas(cache, key) == key \in DOMAIN cache

\* this.cachedData.set(key, dates)
CacheSet(cache, key, dates) ==
  [k \in DOMAIN cache \cup {key} |-> IF k = key THEN dates ELSE cache[k]]

(***************************************************************************)
(* The host page.                                                          *)
(***************************************************************************)
\* The page navigates to p: the host rebuilds the document (with or without a
\* sidebar, keeping or dropping what the sidebar held) and fires a navigation
\* event, whose listener calls handlePageLoad.
Navigate(p, sb, keep) ==
  /\ p # pathname
  /\ pathname' = p
  /\ sidebar' = sb
  /\ dom' = IF keep /\ sidebar /\ sb THEN dom ELSE <<>>
  /\ timers' = timers + 1
  /\ last' = Did("navigate", "", NoKey, "", NoResp, NoRes)
  /\ UNCHANGED <<cachedData, currentlyLoading, lastProcessedPath, loads, loops, unhandled>>

\* The host page finishes rendering its sidebar.
SidebarRendered ==
  /\ ~sidebar
  /\ sidebar' = TRUE
  /\ last' = Did("sidebar", "", NoKey, "", NoResp, NoRes)
  /\ UNCHANGED <<pathname, dom, cachedData, currentlyLoading, lastProcessedPath, timers,
                 loads, loops, unhandled>>

\* One more of pjax:end, turbo:load, popstate, the URL observer: handlePageLoad().
Trigger ==
  /\ timers' = timers + 1
  /\ last' = Did("trigger", "", NoKey, "", NoResp, NoRes)
  /\ UNCHANGED <<pathname, sidebar, dom, cachedData, currentlyLoading, lastProcessedPath,
                 loads, loops, unhandled>>

(***************************************************************************)
(* handlePageLoad's timer callback, with the synchronous part of           *)
(* loadRepoData it may call (up to the first await).                       *)
(***************************************************************************)
NewLoad(repoInfo) ==
  [repoInfo |-> repoInfo, pc |-> "fetchRepoData", createdAt |-> NULL,
   firstCommitDate |-> NULL, lastCommitDate |-> NULL, lastPage |-> 0, nreq |-> 1]

\* loadRepoData(): the guard, removePreviousDateInfo, the cache check, the first fetch
loadRepoData ==
  LET repoInfo == getRepoInfo(pathname) IN
    IF repoInfo = NoRepoInfo \/ currentlyLoading = repoInfo.key
      THEN /\ last' = Did("handlePageLoad", "dropped", repoInfo.key, "", NoResp, NoRes)
           /\ UNCHANGED <<dom, cachedData, currentlyLoading, loads, loops>>
    ELSE IF cacheHas(cachedData, repoInfo.key)
      THEN LET r == displayDateInfo(removePreviousDateInfo(dom), sidebar, loops,
                                    cachedData[repoInfo.key])
           IN /\ dom' = r.dom
              /\ loops' = r.loops
              /\ currentlyLoading' = NoKey
              /\ last' = Did("handlePageLoad", "cachehit", repoInfo.key, "", NoResp, NoRes)
              /\ UNCHANGED <<cachedData, loads>>
    ELSE /\ currentlyLoading' = repoInfo.key
         /\ dom' = removePreviousDateInfo(dom)
         /\ loads' = Put(loads, NewLoad(repoInfo))
         /\ last' = Did("handlePageLoad", "fetch", repoInfo.key, "", NoResp, NoRes)
         /\ UNCHANGED <<cachedData, loops>>

\* handlePageLoad's callback without the lastProcessedPath test
HandlePageLoadAlways ==
  /\ timers > 0
  /\ timers' = timers - 1
  /\ UNCHANGED <<pathname, sidebar, unhandled>>
  /\ lastProcessedPath' = pathname
  /\ IF isRepoPage(pathname) /\ isCodeTab(pathname)
       THEN loadRepoData
       ELSE /\ dom' = removePreviousDateInfo(dom)
            /\ last' = Did("handlePageLoad", "remove", NoKey, "", NoResp, NoRes)
            /\ UNCHANGED <<cachedData, currentlyLoading, loads, loops>>

HandlePageLoad ==
  /\ timers > 0
  /\ timers' = timers - 1
  /\ UNCHANGED <<pathname, sidebar, unhandled>>
  /\ IF lastProcessedPath = pathname
       THEN /\ last' = Did("handlePageLoad", "noop", NoKey, "", NoResp, NoRes)
            /\ UNCHANGED <<dom, cachedData, currentlyLoading, lastProcessedPath, loads, loops>>
       ELSE /\ lastProcessedPath' = pathname
            /\ IF isRepoPage(pathname) /\ isCodeTab(pathname)
                 THEN loadRepoData
                 ELSE /\ dom' = removePreviousDateInfo(dom)
                      /\ last' = Did("handlePageLoad", "remove", NoKey, "", NoResp, NoRes)
                      /\ UNCHANGED <<cachedData, currentlyLoading, loads, loops>>

(***************************************************************************)
(* loadRepoData resumed by a settled fetch.                                *)
(***************************************************************************)
\* the fallback without its catch: loadRepoData's promise rejects
CatchFallbackMissing(res) == res

\* the catch of the fallback: displayError() instead of a rejection
CatchFallback(res) == IF res.kind = "throw" THEN [res EXCEPT !.kind = "error"] ELSE res

\* Finish without this.currentlyLoading = null
FinishKeepsGuard(l, dates, resp, res) ==
  LET r == displayDateInfo(dom, sidebar, loops, dates)
  IN /\ cachedData' = CacheSet(cachedData, l.repoInfo.key, dates)
     /\ dom' = r.dom
     /\ loops' = r.loops
     /\ loads' = Take(loads, l)
     /\ last' = Did("settle", "rendered", l.repoInfo.key, l.pc, resp, res)
     /\ UNCHANGED <<currentlyLoading, unhandled>>

\* cache the dates, displayDateInfo(dates), clear the guard: the invocation is over
Finish(l, dates, resp, res) ==
  LET r == displayDateInfo(dom, sidebar, loops, dates)
  IN /\ cachedData' = CacheSet(cachedData, l.repoInfo.key, dates)
     /\ dom' = r.dom
     /\ loops' = r.loops
     /\ currentlyLoading' = NoKey
     /\ loads' = Take(loads, l)
     /\ last' = Did("settle", "rendered", l.repoInfo.key, l.pc, resp, res)
     /\ UNCHANGED unhandled

\* catch (error): the fallback's fetchRepoData is called
Fallback(l, resp, res) ==
     /\ loads' = Put(Take(loads, l), [l EXCEPT !.pc = "fallback", !.nreq = l.nreq + 1])
     /\ last' = Did("settle", "fallback", l.repoInfo.key, l.pc, resp, res)
     /\ UNCHANGED <<dom, cachedData, currentlyLoading, loops, unhandled>>

\* await this.fetchRepoData(owner, repo) of the try block settles
RepoSettles(l, resp) ==
  LET res == fetchRepoData(resp)
  IN /\ l.pc = "fetchRepoData"
     /\ UNCHANGED <<pathname, sidebar, lastProcessedPath, timers>>
     /\ IF res.kind = "return"
          THEN /\ loads' = Put(Take(loads, l), [l EXCEPT !.pc = "latest",
                                                           !.createdAt = resp.created_at,
                                                           !.nreq = l.nreq + 1])
               /\ last' = Did("settle", "await", l.repoInfo.key, l.pc, resp, res)
               /\ UNCHANGED <<dom, cachedData, currentlyLoading, loops, unhandled>>
          ELSE Fallback(l, resp, res)

\* a fetch of fetchCommitsData settles
CommitsSettles(l, resp) ==
  LET res == CommitsStep(l, resp)
  IN /\ l.pc \in {"latest", "firstPage", "lastPage"}
     /\ UNCHANGED <<pathname, sidebar, lastProcessedPath, timers>>
     /\ IF res.kind = "await"
          THEN /\ loads' = Put(Take(loads, l),
                               [l EXCEPT !.pc = IF l.pc = "latest" THEN "firstPage"
                                                ELSE "lastPage",
                                         !.firstCommitDate = res.firstCommit,
                                         !.lastCommitDate = res.lastCommit,
                                         !.lastPage = res.page,
                                         !.nreq = l.nreq + 1])
               /\ last' = Did("settle", "await", l.repoInfo.key, l.pc, resp, res)
               /\ UNCHANGED <<dom, cachedData, currentlyLoading, loops, unhandled>>
        ELSE IF res.kind = "return"
          THEN Finish(l, Dates(l.createdAt, res.firstCommit, res.lastCommit), resp, res)
        ELSE Fallback(l, resp, res)

\* the fallback settles, a total failure cached as an entry of null dates
FallbackSettlesCaching(l, resp) ==
  LET res == CatchFallback(fetchRepoData(resp))
  IN /\ l.pc = "fallback"
     /\ UNCHANGED <<pathname, sidebar, lastProcessedPath, timers>>
     /\ IF res.kind = "return"
          THEN Finish(l, Dates(resp.created_at, NULL, NULL), resp, res)
          ELSE LET r == displayError(dom, sidebar, loops) IN
                 /\ cachedData' = CacheSet(cachedData, l.repoInfo.key, NullDates)
                 /\ dom' = r.dom
                 /\ loops' = r.loops
                 /\ currentlyLoading' = NoKey
                 /\ loads' = Take(loads, l)
                 /\ last' = Did("settle", "error", l.repoInfo.key, l.pc, resp, res)
                 /\ UNCHANGED unhandled

\* await this.fetchRepoData(owner, repo) of the catch block settles
FallbackSettles(l, resp) ==
  LET res == CatchFallback(fetchRepoData(resp))
  IN /\ l.pc = "fallback"
     /\ UNCHANGED <<pathname, sidebar, lastProcessedPath, timers>>
     /\ IF res.kind = "return"
          THEN Finish(l, Dates(resp.created_at, NULL, NULL), resp, res)
        ELSE IF res.kind = "error"
          THEN LET r == displayError(dom, sidebar, loops) IN
                 /\ dom' = r.dom
                 /\ loops' = r.loops
                 /\ currentlyLoading' = NoKey
                 /\ loads' = Take(loads, l)
                 /\ last' = Did("settle", "error", l.repoInfo.key, l.pc, resp, res)
                 /\ UNCHANGED <<cachedData, unhandled>>
        ELSE /\ unhandled' = TRUE
             /\ loads' = Take(loads, l)
             /\ last' = Did("settle", "rejected", l.repoInfo.key, l.pc, resp, res)
             /\ UNCHANGED <<dom, cachedData, currentlyLoading, loops>>

(***************************************************************************)
(* tryInsert run by its 200 ms timer.                                      *)
(***************************************************************************)
RetryTick(lp) ==
  LET r == insertIntoSidebar(dom, sidebar, lp.dates)
  IN /\ dom' = r.dom
     /\ loops' = IF r.ok \/ lp.attempts >= maxAttempts THEN Take(loops, lp)
                 ELSE Put(Take(loops, lp), [lp EXCEPT !.attempts = lp.attempts + 1])
     /\ last' = Did("tick", IF r.ok THEN "done" ELSE IF lp.attempts >= maxAttempts
                                  THEN "gaveup" ELSE "retry",
                    NoKey, "", NoResp, NoRes)
     /\ UNCHANGED <<pathname, sidebar, cachedData, currentlyLoading, lastProcessedPath,
                    timers, loads, unhandled>>

(***************************************************************************)
(* The page specification: the script on pages whose sidebar is rendered   *)
(* before its callbacks run, navigating between two repositories.          *)
(***************************************************************************)
Bounded == timers <= MaxTimers /\ BagCardinality(loads) <= MaxLoads

PageInit == Init /\ sidebar

Next ==
  \/ \E p \in Paths, keep \in BOOLEAN : Navigate(p, TRUE, keep) /\ Bounded'
  \/ Trigger /\ Bounded'
  \/ HandlePageLoad /\ Bounded'
  \/ \E l \in BagToSet(loads) : \E resp \in PageResponses(l) : RepoSettles(l, resp)
  \/ \E l \in BagToSet(loads) : \E resp \in PageResponses(l) : CommitsSettles(l, resp)
  \/ \E l \in BagToSet(loads) : \E resp \in PageResponses(l) : FallbackSettles(l, resp)

Spec == PageInit /\ [][Next]_vars

\* a pending fetch settles
Settles ==
  \E l \in BagToSet(loads) : \E resp \in PageResponses(l) :
    RepoSettles(l, resp) \/ CommitsSettles(l, resp) \/ FallbackSettles(l, resp)

\* the page specification when every network request eventually settles
FairSpec == Spec /\ WF_vars(Settles)

(***************************************************************************)
(* The same pages when every request succeeds.                             *)
(***************************************************************************)
OkResponses(l) == {r \in PageResponses(l) : r.net /\ Ok(r) /\ r.json}

OkNext ==
  \/ \E p \in Paths, keep \in BOOLEAN : Navigate(p, TRUE, keep) /\ Bounded'
  \/ Trigger /\ Bounded'
  \/ HandlePageLoad /\ Bounded'
  \/ \E l \in BagToSet(loads) : \E resp \in OkResponses(l) : RepoSettles(l, resp)
  \/ \E l \in BagToSet(loads) : \E resp \in OkResponses(l) : CommitsSettles(l, resp)

OkSpec == PageInit /\ [][OkNext]_vars

(***************************************************************************)
(* The load specification: one page, the script's first handlePageLoad and *)
(* the loadRepoData it starts, under every answer of the API, with the     *)
(* sidebar rendered early or late.                                         *)
(***************************************************************************)
LoadNext ==
  \/ SidebarRendered
  \/ HandlePageLoad
  \/ \E l \in BagToSet(loads) : \E resp \in AllResponses(l) : RepoSettles(l, resp)
  \/ \E l \in BagToSet(loads) : \E resp \in AllResponses(l) : CommitsSettles(l, resp)
  \/ \E l \in BagToSet(loads) : \E resp \in AllResponses(l) : FallbackSettles(l, resp)
  \/ \E lp \in BagToSet(loops) : RetryTick(lp)

LoadSpec == Init /\ [][LoadNext]_vars

(***************************************************************************)
(* The render specification: one repository, pages with and without a     *)
(* sidebar, retry loops.                                                   *)
(***************************************************************************)
RenderPaths == {PathAX, PathAXIssues}

RenderResponses(l) ==
  IF l.pc \in {"fetchRepoData", "fallback"} THEN {HttpError(403), RepoBody(l.repoInfo.key)}
  ELSE {HttpError(404)}

RenderBounded == timers <= MaxTimers /\ BagCardinality(loops) <= MaxLoops

RenderInit == Init /\ pathname \in RenderPaths

RenderNext ==
  \/ \E p \in RenderPaths, sb \in BOOLEAN, keep \in BOOLEAN :
       Navigate(p, sb, keep) /\ RenderBounded'
  \/ SidebarRendered
  \/ Trigger /\ RenderBounded'
  \/ HandlePageLoad /\ RenderBounded'
  \/ \E l \in BagToSet(loads) : \E resp \in RenderResponses(l) : RepoSettles(l, resp)
  \/ \E l \in BagToSet(loads) : \E resp \in RenderResponses(l) :
       CommitsSettles(l, resp) /\ RenderBounded'
  \/ \E l \in BagToSet(loads) : \E resp \in RenderResponses(l) :
       FallbackSettles(l, resp) /\ RenderBounded'
  \/ \E lp \in BagToSet(loops) : RetryTick(lp)

RenderSpec == RenderInit /\ [][RenderNext]_vars

(***************************************************************************)
(* The path specification: the script's first handlePageLoad on every page *)
(* of a family of paths of up to MaxSegments segments, written with single *)
(* slashes, with a trailing slash, or with doubled slashes.                *)
(***************************************************************************)
MaxSegments == 4

Owners ==
  ReservedOwners \cup {<<"a">>, <<".", "github">>, <<"a", ".", "b">>, <<"settings", "a">>,
                       <<"issues">>, <<"tree">>}

Repos == {<<"x">>, <<"blob">>, <<"tree">>}

Thirds ==
  NonCodeTabs \cup {<<"tree">>, <<"blob">>, <<"commits">>, <<"tree", "s">>, <<"x">>}

\* the segments a path may have at position k
SegmentsAt(k) ==
  IF k = 1 THEN Owners ELSE IF k = 2 THEN Repos ELSE IF k = 3 THEN Thirds
  ELSE {<<"main">>}

SegmentLists == UNION {{segs \in [1..n -> Owners \cup Repos \cup Thirds \cup {<<"main">>}] :
                          \A k \in 1..n : segs[k] \in SegmentsAt(k)} : n \in 0..MaxSegments}

RECURSIVE Join(_, _)
\* the segments written one after the other, sep before each
Join(segs, sep) ==
  IF segs = <<>> THEN <<>> ELSE sep \o Head(segs) \o Join(Tail(segs), sep)

PathInputs ==
  {Join(segs, <<"/">>) : segs \in SegmentLists \ {<<>>}}
    \cup {Join(segs, <<"/">>) \o <<"/">> : segs \in SegmentLists}
    \cup {Join(segs, <<"/", "/">>) : segs \in SegmentLists \ {<<>>}}

PathInit == pathname \in PathInputs /\ Constructed /\ sidebar

PathNext == HandlePageLoad

PathSpec == PathInit /\ [][PathNext]_vars

(***************************************************************************)
(* The time specification: one page load whose requests are answered with  *)
(* timestamps of every age around the thresholds of getTimeAgo.            *)
(***************************************************************************)
Units == {60, 3600, 86400, 2592000, 31536000}

\* seconds elapsed since a timestamp; a negative one is a timestamp ahead of the clock
Elapsed ==
  {-5, 0, 45, 300, 172800}
    \cup UNION {{u - 1, u, u + 1, 2 * u - 1, 2 * u} : u \in Units}

TimeStamps == {Now - d : d \in Elapsed}

TimeResponses(l) ==
  IF l.pc = "fetchRepoData"
    THEN {Resp(TRUE, 200, TRUE, t, <<>>, <<>>) : t \in TimeStamps}
  ELSE IF l.pc = "latest"
    THEN {HttpError(404)} \cup {CommitsBody(<<t>>, <<>>) : t \in TimeStamps}
  ELSE {HttpError(500)}

TimeInit == pathname = PathAX /\ Constructed /\ sidebar

TimeNext ==
  \/ HandlePageLoad
  \/ \E l \in BagToSet(loads) : \E resp \in TimeResponses(l) : RepoSettles(l, resp)
  \/ \E l \in BagToSet(loads) : \E resp \in TimeResponses(l) : CommitsSettles(l, resp)

TimeSpec == TimeInit /\ [][TimeNext]_vars

(***************************************************************************)
(* The request specification: one repository, its code view and its issues *)
(* page, navigations between them, under every answer of the API.          *)
(***************************************************************************)
RequestInit == pathname \in RenderPaths /\ Constructed /\ sidebar

RequestNext ==
  \/ \E p \in RenderPaths : Navigate(p, TRUE, FALSE) /\ Bounded'
  \/ HandlePageLoad /\ Bounded'
  \/ \E l \in BagToSet(loads) : \E resp \in AllResponses(l) : RepoSettles(l, resp)
  \/ \E l \in BagToSet(loads) : \E resp \in AllResponses(l) : CommitsSettles(l, resp)
  \/ \E l \in BagToSet(loads) : \E resp \in AllResponses(l) : FallbackSettles(l, resp)

RequestSpec == RequestInit /\ [][RequestNext]_vars

(***************************************************************************)
(* Properties.                                                             *)
(***************************************************************************)
\* the number of loadRepoData invocations in flight for key k
InFlight(k) ==
  BagCardinality([l \in {x \in BagToSet(loads) : x.repoInfo.key = k} |-> loads[l]])

\* the page is a repository code view
Qualifies(path) == isRepoPage(path) /\ isCodeTab(path)

\* this step is handlePageLoad's callback processing a new path
Processes == timers' = timers - 1 /\ lastProcessedPath # pathname

KeyA == KeyOf(PathAX)
KeyB == KeyOf(PathBY)

\* C1: at any time, for every repository key, at most one loadRepoData
\* invocation is in flight.
C1_OneLoadPerKey == \A k \in Keys : InFlight(k) <= 1

\* C2: whenever a fragment is inserted, the dates it shows are those of the
\* repository of the page's current path, which is a repository code view.
C2_InsertedDatesBelongToPage ==
  [][(dom' # dom /\ dom' # <<>>) =>
       \A i \in DOMAIN dom' :
         dom'[i].dates.createdAt # NULL =>
           /\ Qualifies(pathname')
           /\ dom'[i].dates.createdAt = CreatedOf(KeyOf(pathname'))]_vars

\* C4: once cachedData has an entry for a key, no later step overwrites or
\* removes it.
C4_CacheWriteOnce ==
  [][\A k \in DOMAIN cachedData :
       k \in DOMAIN cachedData' /\ cachedData'[k] = cachedData[k]]_vars

\* C5: when every request succeeds and an anchor is present, once the last
\* navigation has been processed and nothing is pending any more, a page that
\* is a code view of repository k holds a fragment showing k's dates.
C5_SettledPageShowsItsRepository ==
  (timers = 0 /\ loads = EmptyBag /\ Qualifies(pathname)) =>
    /\ Len(dom) = 1
    /\ dom[1].dates.createdAt = CreatedOf(KeyOf(pathname))

\* C6: when cachedData holds key k (a loadRepoData for k settled having got the
\* creation date), loadRepoData run again for k starts no request: no invocation
\* is left in flight by it, it renders the cached dates and clears the guard.
C6_SecondRunServedFromCache ==
  [][(Processes /\ Qualifies(pathname) /\ KeyOf(pathname) \in DOMAIN cachedData) =>
       /\ loads' = loads
       /\ cachedData' = cachedData
       /\ currentlyLoading' = NoKey
       /\ dom' = <<createGitHubStyleContainer(cachedData[KeyOf(pathname)])>>]_vars

\* a run of loadRepoData for a cached key, just served: the fragment is the
\* cached one and no invocation is in flight
C6_Witness ==
  /\ last.op = "handlePageLoad" /\ last.what = "cachehit"
  /\ last.key \in DOMAIN cachedData
  /\ cachedData[last.key].createdAt = CreatedOf(last.key)
  /\ dom = <<createGitHubStyleContainer(cachedData[last.key])>>
  /\ loads = EmptyBag

\* C3: the document holds at most one element with the reserved id, and exactly
\* one after a render that found an anchor (a settled load, a cache hit or a
\* retry tick on a page with a sidebar).
C3_AtMostOneFragment ==
  /\ Len(dom) <= 1
  /\ (sidebar /\ last.what \in {"rendered", "cachehit", "error", "done"}) => Len(dom) = 1

\* two retry loops were waiting; the tick of one found the anchor and inserted,
\* the other is still to run
C3_Witness ==
  /\ last.op = "tick" /\ last.what = "done"
  /\ Len(dom) = 1
  /\ BagCardinality(loops) >= 1

CommitPcs == {"latest", "firstPage", "lastPage"}

\* the request failed: transport failure, non-success status or unreadable body
Failed(resp) == ~resp.net \/ ~Ok(resp) \/ ~resp.json

\* an exception raised in fetchCommitsData outside the inner try of the last-page
\* request: a rejected fetch or json(), or the Error thrown for a status other
\* than 404, 409, 403 of the first request
Raised(pc, resp) ==
  /\ pc \in {"latest", "firstPage"}
  /\ \/ ~resp.net
     \/ Ok(resp) /\ ~resp.json
     \/ pc = "latest" /\ ~Ok(resp) /\ resp.status \notin {403, 404, 409}

\* C7: fetchCommitsData never raises: whatever the awaited request's outcome, it
\* returns a {firstCommit, lastCommit} value or goes on to its next request, a
\* failed request makes it return, an exception gives absent/absent, and
\* loadRepoData's catch is not entered from it.
C7_CommitsNeverRaise ==
  (last.op = "settle" /\ last.pc \in CommitPcs) =>
    /\ last.res.kind \in {"return", "await"}
    /\ last.what \in {"rendered", "await"}
    /\ Failed(last.resp) => last.res.kind = "return"
    /\ Raised(last.pc, last.resp) => last.res = Return(NULL, NULL)
    /\ ~unhandled

\* the body of the page-1 response was unreadable after lastCommit was recorded
C7_Witness ==
  /\ last.op = "settle" /\ last.pc = "firstPage" /\ last.resp = BadBody
  /\ last.res = Return(NULL, NULL)
  /\ last.what = "rendered"

\* C8: a non-success status of the most-recent-commit request (404, 409, 403 or
\* any other) makes the resolver return absent/absent without raising, and no
\* further request is issued: the invocation caches and renders the creation
\* date alone and is over.
C8_LatestStatusGivesAbsent ==
  (last.op = "settle" /\ last.pc = "latest" /\ last.resp.net /\ ~Ok(last.resp)) =>
    /\ last.res = Return(NULL, NULL)
    /\ last.what = "rendered"
    /\ InFlight(last.key) = 0
    /\ cachedData[last.key] = Dates(CreatedOf(last.key), NULL, NULL)
    /\ ~unhandled

\* the most-recent-commit request was answered 403
C8_Witness ==
  /\ last.op = "settle" /\ last.pc = "latest" /\ last.resp = HttpError(403)
  /\ last.res = Return(NULL, NULL)
  /\ loads = EmptyBag

\* C9: whatever the requests' outcomes, loadRepoData settles without raising:
\* no rejection reaches the host page, and every invocation in flight has a
\* continuation for every answer.
C9_NoRejectionEscapes ==
  /\ ~unhandled
  /\ last.what # "rejected"
  /\ \A l \in BagToSet(loads) : \A resp \in AllResponses(l) :
       ENABLED (RepoSettles(l, resp) \/ CommitsSettles(l, resp) \/ FallbackSettles(l, resp))

\* the metadata request and the fallback both failed, the second by a transport
\* failure; the invocation is over and the guard is clear
C9_Witness ==
  /\ last.op = "settle" /\ last.pc = "fallback" /\ last.resp = NetworkError
  /\ last.what = "error"
  /\ loads = EmptyBag
  /\ currentlyLoading = NoKey

\* C10: when the metadata fetch and the fallback both failed, the fragment in
\* the page holds the single warning row and no date rows.
C10_ErrorFragmentIsWarning ==
  (last.op = "settle" /\ last.what = "error" /\ dom # <<>>) =>
    \A i \in DOMAIN dom : dom[i].rows = "warning"

\* the positions of a path where a non-empty segment starts
Starts(path) == {i \in DOMAIN path : path[i] # "/" /\ (i = 1 \/ path[i - 1] = "/")}

\* the position where the k-th non-empty segment starts
StartOf(path, k) ==
  CHOOSE i \in Starts(path) : Cardinality({j \in Starts(path) : j < i}) = k - 1

\* the k-th non-empty segment of a path
SegmentOf(path, k) ==
  LET i == StartOf(path, k)
      e == CHOOSE m \in i..Len(path) :
             /\ \A j \in i..m : path[j] # "/"
             /\ (m = Len(path) \/ path[m + 1] = "/")
  IN SubSeq(path, i, e)

\* the page was processed by handlePageLoad's callback, which did not load
Removed == last.op = "handlePageLoad" /\ last.what = "remove"

\* the page was processed by handlePageLoad's callback, which called loadRepoData
Loaded == last.op = "handlePageLoad" /\ last.what \in {"fetch", "cachehit", "dropped"}

\* C11: isRepoPage is true exactly when the path has at least 2 non-empty
\* segments and its first segment neither starts with "." nor is one of
\* settings, notifications, explore, marketplace, pricing; the callback never
\* loads on a page for which it is false.
C11_RepoPageExactly ==
  LET n == Cardinality(Starts(pathname))
      repo == /\ n >= 2
              /\ pathname[StartOf(pathname, 1)] # "."
              /\ SegmentOf(pathname, 1) \notin
                   {<<"settings">>, <<"notifications">>, <<"explore">>,
                    <<"marketplace">>, <<"pricing">>}
  IN /\ isRepoPage(pathname) <=> repo
     /\ ~repo => ~Loaded

\* the callback ran on a page of two segments or more whose first segment is in
\* the denylist, and did not load
C11_Witness ==
  /\ Removed
  /\ Cardinality(Starts(pathname)) >= 3
  /\ SegmentOf(pathname, 1) = <<"settings">>
  /\ SegmentOf(pathname, 3) = <<"tree">>

\* C12: isCodeTab is true for a path of exactly 2 segments and for a third
\* segment "tree", false for a third segment "blob" or one of issues, pull,
\* actions, projects, security, insights, settings, and true for every other
\* path of 3 or more segments; on a repository page the callback loads exactly
\* when it is true.
C12_CodeTabCases ==
  LET n == Cardinality(Starts(pathname))
      third == SegmentOf(pathname, 3)
      code == IF n = 2 THEN TRUE
              ELSE IF third = <<"tree">> THEN TRUE
              ELSE third \notin {<<"blob">>, <<"issues">>, <<"pull">>, <<"actions">>,
                                 <<"projects">>, <<"security">>, <<"insights">>,
                                 <<"settings">>}
  IN n >= 2 =>
       /\ isCodeTab(pathname) <=> code
       /\ (isRepoPage(pathname) /\ Loaded) => code
       /\ (isRepoPage(pathname) /\ Removed) => ~code

\* the callback ran on a repository page whose third segment is "blob" and whose
\* second is "tree", and did not load
C12_Witness ==
  /\ Removed
  /\ isRepoPage(pathname)
  /\ Cardinality(Starts(pathname)) = 4
  /\ SegmentOf(pathname, 2) = <<"tree">>
  /\ SegmentOf(pathname, 3) = <<"blob">>

\* the request of fetchCommitsData at pc was answered with a parsed list
Answered(pc) ==
  /\ last.op = "settle" /\ last.pc = pc
  /\ last.resp.net /\ Ok(last.resp) /\ last.resp.json

\* the page number the rel="last" link of a Link header advertises: the value of
\* its page parameter
AdvertisedLast(link) ==
  LET i == CHOOSE m \in DOMAIN link : link[m].rel = "last"
      j == CHOOSE n \in DOMAIN link[i].params : link[i].params[n].name = "page"
  IN link[i].params[j].value

\* C13: when the page-1 response's Link header advertises last page N, the
\* resolver issues one further request, for page N, and firstCommit becomes the
\* date of the final entry of that page's list, after which the resolver is over.
C13_LastPageRequested ==
  /\ (Answered("firstPage") /\ HasRelLast(last.resp.link)) =>
       /\ last.res.kind = "await"
       /\ last.res.page = AdvertisedLast(last.resp.link)
       /\ \A l \in BagToSet(loads) :
            l.pc = "lastPage" /\ l.lastPage = AdvertisedLast(last.resp.link)
  /\ (Answered("lastPage") /\ Len(last.resp.commits) > 0) =>
       /\ last.res.kind = "return"
       /\ last.res.firstCommit = last.resp.commits[Len(last.resp.commits)]
       /\ loads = EmptyBag

\* C14: a page-1 response without a 'last' link and with 2 or more entries gives
\* firstCommit the date of the page's last entry and lastCommit the date of the
\* single entry of the most-recent-commit request; these are the dates cached.
C14_FirstPageOldestEntry ==
  [][/\ (Answered("latest")' /\ Len(last'.resp.commits) > 0) =>
          \A l \in BagToSet(loads') : l.lastCommitDate = last'.resp.commits[1]
     /\ (Answered("firstPage")' /\ ~HasRelLast(last'.resp.link)
           /\ Len(last'.resp.commits) >= 2) =>
          \A l \in BagToSet(loads) :
            /\ last'.res = Return(last'.resp.commits[Len(last'.resp.commits)],
                                  l.lastCommitDate)
            /\ cachedData'[last'.key].firstCommit
                 = last'.resp.commits[Len(last'.resp.commits)]
            /\ cachedData'[last'.key].lastCommit = l.lastCommitDate]_vars

\* page 1 held two entries of different dates and no 'last' link; the older one
\* became firstCommit
C14_Witness ==
  /\ Answered("firstPage")
  /\ last.resp.commits = <<2, 1>> /\ last.resp.link = <<NextLink>>
  /\ last.res = Return(1, 2)
  /\ cachedData[last.key].firstCommit = 1 /\ cachedData[last.key].lastCommit = 2

\* C15: for a commit list of exactly one entry with timestamp T (the
\* most-recent-commit request returned it, page 1 returns it alone and no 'last'
\* link) the resolver returns {firstCommit: T, lastCommit: T}.
C15_SingleCommit ==
  [][(Answered("firstPage")' /\ ~HasRelLast(last'.resp.link)
        /\ Len(last'.resp.commits) = 1) =>
       \A l \in BagToSet(loads) :
         l.lastCommitDate = last'.resp.commits[1] =>
           /\ last'.res = Return(last'.resp.commits[1], last'.resp.commits[1])
           /\ cachedData'[last'.key].firstCommit = last'.resp.commits[1]
           /\ cachedData'[last'.key].lastCommit = last'.resp.commits[1]]_vars

\* the single commit of timestamp 2 was returned by both requests
C15_Witness ==
  /\ Answered("firstPage")
  /\ last.resp.commits = <<2>> /\ last.resp.link = <<>>
  /\ last.res = Return(2, 2)
  /\ cachedData[last.key].lastCommit = 2

\* the text for d whole seconds elapsed, by intervals
AgoText(d) ==
  IF d < 60 THEN [n |-> 0, unit |-> "just now"]
  ELSE IF 60 <= d /\ d < 3600 THEN [n |-> d \div 60, unit |-> "m ago"]
  ELSE IF 3600 <= d /\ d < 86400 THEN [n |-> d \div 3600, unit |-> "h ago"]
  ELSE IF 86400 <= d /\ d < 2592000 THEN [n |-> d \div 86400, unit |-> "d ago"]
  ELSE IF 2592000 <= d /\ d < 31536000 THEN [n |-> d \div 2592000, unit |-> "mo ago"]
  ELSE [n |-> d \div 31536000, unit |-> "y ago"]

\* C16: every value of a rendered fragment shows getTimeAgo's text for the whole
\* seconds d elapsed since its timestamp: "just now" below 60, then floor(d/60)
\* "m ago", floor(d/3600) "h ago", floor(d/86400) "d ago", floor(d/2592000)
\* "mo ago", floor(d/31536000) "y ago"; an absent timestamp shows "N/A" as text
\* and as formatted date, and only an absent one does.
C16_TimeAgoText ==
  \A i \in DOMAIN dom : \A f \in {"createdAt", "firstCommit", "lastCommit"} :
    LET t == dom[i].dates[f]
        cell == dom[i].cells[f]
    IN IF t = NULL
         THEN cell.text = [n |-> 0, unit |-> "N/A"] /\ cell.title = [n |-> 0, unit |-> "N/A"]
         ELSE /\ cell.text = AgoText(Now - t)
              /\ cell.title.unit # "N/A"
              /\ (Now - t = 45) => cell.text.unit = "just now"
              /\ (Now - t = 300) => cell.text = [n |-> 5, unit |-> "m ago"]
              /\ (Now - t = 172800) => cell.text = [n |-> 2, unit |-> "d ago"]

\* a fragment rendered for a repository created 60 seconds ago whose latest
\* commit is 2 days old
C16_Witness ==
  /\ last.op = "settle" /\ last.what = "rendered"
  /\ Len(dom) = 1
  /\ dom[1].dates.createdAt = Now - 60
  /\ dom[1].cells.createdAt.text = [n |-> 1, unit |-> "m ago"]
  /\ dom[1].dates.lastCommit = Now - 172800
  /\ dom[1].cells.lastCommit.text = [n |-> 2, unit |-> "d ago"]

\* C17: when the page-1 request fails after lastCommit was recorded, by a
\* non-success status or by a transport failure, the resolver returns
\* {firstCommit: lastCommit, lastCommit}, not absent/absent.
C17_FirstPageFailureBestEffort ==
  [][(last'.op = "settle" /\ last'.pc = "firstPage"
        /\ (~last'.resp.net \/ ~Ok(last'.resp))) =>
       \A l \in BagToSet(loads) :
         /\ l.lastCommitDate # NULL
         /\ last'.res = Return(l.lastCommitDate, l.lastCommitDate)]_vars

\* C18: when the request for the advertised last page fails (non-success
\* status, transport failure) or returns an empty list, the resolver returns the
\* firstCommit it held before the request and the recorded lastCommit, and these
\* are cached: the result is not absent/absent.
C18_LastPageFailureKeepsValues ==
  [][(last'.op = "settle" /\ last'.pc = "lastPage"
        /\ (~last'.resp.net \/ ~Ok(last'.resp)
              \/ (last'.resp.json /\ Len(last'.resp.commits) = 0))) =>
       \A l \in BagToSet(loads) :
         /\ l.lastCommitDate # NULL /\ l.firstCommitDate # NULL
         /\ last'.res = Return(l.firstCommitDate, l.lastCommitDate)
         /\ cachedData'[last'.key].firstCommit = l.firstCommitDate
         /\ cachedData'[last'.key].lastCommit = l.lastCommitDate]_vars

\* the last-page request met a transport failure; the dates of the latest commit
\* were kept
C18_Witness ==
  /\ last.op = "settle" /\ last.pc = "lastPage" /\ last.resp = NetworkError
  /\ last.res = Return(2, 2)
  /\ cachedData[last.key] = Dates(CreatedOf(last.key), 2, 2)

\* C19: after displayDateInfo(d) has run with an anchor available (a load that
\* settled with dates d, which it cached), the fragment in the page is the one
\* built from d, whatever the page held when the render started.
C19_RenderReplacesFragment ==
  (last.op = "settle" /\ last.what = "rendered" /\ sidebar) =>
    dom = <<createGitHubStyleContainer(cachedData[last.key])>>

\* C20: the retry loop of displayDateInfo makes at most 10 insertion attempts: a
\* loop waiting for its 200 ms timer, which will attempt once more, has made
\* fewer than 10; and after the attempt that succeeds or the one that exhausts
\* the budget no attempt is scheduled.
C20_AtMostTenAttempts ==
  /\ \A lp \in BagToSet(loops) : lp.attempts < 10
  /\ (last.op = "tick" /\ last.what \in {"done", "gaveup"}) => loops = EmptyBag

\* C21: insertion falls back from the sidebar containers to the main-content
\* containers, the page header and the document body, which every page has; so
\* a render that has ended (its last insertion attempt made, no retry pending)
\* has inserted the fragment, also on a page without a sidebar container.
C21_RenderInsertsWithoutSidebar ==
  (last.what \in {"rendered", "done", "gaveup"} /\ loops = EmptyBag) => Len(dom) = 1

\* C22: when handlePageLoad's callback runs and the current path equals
\* lastProcessedPath, nothing changes: no fetch starts, no fragment is inserted
\* or removed, the cache, the guard and lastProcessedPath stay as they are; a
\* loadRepoData starts only in a callback that finds a path other than
\* lastProcessedPath, which it records, so further triggers for that path start
\* none.
C22_SamePathIsNoOp ==
  [][/\ (timers' = timers - 1 /\ lastProcessedPath = pathname) =>
          UNCHANGED <<dom, cachedData, currentlyLoading, lastProcessedPath, loads, loops>>
     /\ BagCardinality(loads') > BagCardinality(loads) =>
          /\ timers' = timers - 1
          /\ lastProcessedPath # pathname
          /\ lastProcessedPath' = pathname]_vars

\* a second trigger for the path was processed while the load the first one
\* started is in flight
C22_Witness ==
  /\ last.op = "handlePageLoad" /\ last.what = "noop"
  /\ lastProcessedPath = pathname
  /\ InFlight(KeyOf(pathname)) = 1
  /\ currentlyLoading = KeyOf(pathname)

\* C23: when handlePageLoad's callback processes a new path that is not a
\* repository code view, every fragment is removed from the page and nothing
\* else happens: no request is started, the cache and the guard are untouched.
C23_NonCodeViewRemovesFragment ==
  [][(Processes /\ ~Qualifies(pathname)) =>
       /\ dom' = <<>>
       /\ lastProcessedPath' = pathname
       /\ UNCHANGED <<cachedData, currentlyLoading, loads, loops>>]_vars

\* the callback ran on the issues page while the load started on the code view
\* is in flight; the document holds no fragment
C23_Witness ==
  /\ Removed
  /\ pathname = PathAXIssues /\ lastProcessedPath = PathAXIssues
  /\ InFlight(KeyA) = 1
  /\ dom = <<>>

\* C24: every exit of loadRepoData clears the guard: a step that ends an
\* invocation or serves a cache hit leaves the guard empty, the guard is empty
\* whenever no invocation is in flight, and, every request eventually settling,
\* a set guard is eventually cleared.
C24_GuardCleared ==
  /\ [][(BagCardinality(loads') < BagCardinality(loads)
           \/ (last'.op = "handlePageLoad" /\ last'.what = "cachehit"))
          => currentlyLoading' = NoKey]_vars
  /\ [](loads = EmptyBag => currentlyLoading = NoKey)
  /\ (currentlyLoading # NoKey) ~> (currentlyLoading = NoKey)

\* an invocation ended by total failure; the guard is empty and no invocation is
\* in flight
C24_Witness ==
  /\ last.op = "settle" /\ last.what = "error"
  /\ currentlyLoading = NoKey
  /\ loads = EmptyBag
  /\ timers > 0

\* C25: the step in which the fallback fails too writes no cache entry; and a
\* processed navigation to a repository code view whose key has no entry (and is
\* not the guard's) issues the metadata request.
C25_FailureNotCached ==
  [][/\ (last'.op = "settle" /\ last'.what = "error") => cachedData' = cachedData
     /\ (Processes /\ Qualifies(pathname) /\ ~cacheHas(cachedData, KeyOf(pathname))
           /\ currentlyLoading # KeyOf(pathname)) =>
          /\ loads' = Put(loads, NewLoad(getRepoInfo(pathname)))
          /\ cachedData' = cachedData]_vars

\* both metadata requests of an invocation failed and its key has no cache entry
C25_Witness ==
  /\ last.op = "settle" /\ last.what = "error" /\ last.pc = "fallback"
  /\ ~cacheHas(cachedData, last.key)
  /\ KeyOf(pathname) = last.key

\* the request an invocation awaits at pc: the try block's and the fallback's
\* fetchRepoData both are GET /repos/{owner}/{repo}
RequestAt(pc) == IF pc \in {"fetchRepoData", "fallback"} THEN "repo" ELSE pc

\* C26: within one invocation, after a request was answered 403 that request is
\* not issued again, and the metadata endpoint is requested once.
C26_NoRetryAfter403 ==
  /\ (last.op = "settle" /\ last.resp.net /\ last.resp.status = 403) =>
       \A l \in BagToSet(loads) : RequestAt(l.pc) # RequestAt(last.pc)
  /\ \A l \in BagToSet(loads) : RequestAt(l.pc) = "repo" => l.nreq = 1

\* C27: a cache entry is written only by the step in which the commit-range
\* resolver returns for that key, and holds what it returned: an entry of absent
\* firstCommit and lastCommit is stored only after the resolver ran and returned
\* absent values.
C27_EntryHoldsResolverResult ==
  [][cachedData' # cachedData =>
       /\ last'.op = "settle" /\ last'.pc \in CommitPcs /\ last'.res.kind = "return"
       /\ cachedData'[last'.key].firstCommit = last'.res.firstCommit
       /\ cachedData'[last'.key].lastCommit = last'.res.lastCommit]_vars

\* requests issued so far by an invocation awaiting at pc, when the requests are
\* issued in order and each only after the one before it succeeded
IssuedAt(pc) ==
  IF pc = "fetchRepoData" THEN 1
  ELSE IF pc \in {"latest", "fallback"} THEN 2
  ELSE IF pc = "firstPage" THEN 3
  ELSE 4

\* C28: an invocation has issued at most 4 requests: the metadata request, then
\* the most-recent, page-1 and last-page commit requests, each after the one
\* before it was answered with success, or the metadata request twice when the
\* first one failed; the step that ends an invocation follows a request that it
\* does not repeat; a cache-hit run issues none.
C28_AtMostFourRequests ==
  [][/\ \A l \in BagToSet(loads') : l.nreq <= 4 /\ l.nreq = IssuedAt(l.pc)
     /\ \A l \in BagToSet(loads') \ BagToSet(loads) :
          /\ l.pc \in {"latest", "firstPage", "lastPage"} =>
               last'.resp.net /\ Ok(last'.resp) /\ last'.resp.json
          /\ l.pc = "fallback" => last'.pc = "fetchRepoData" /\ Failed(last'.resp)
     /\ (last'.op = "handlePageLoad" /\ last'.what = "cachehit") => loads' = loads]_vars

\* an invocation awaits its fourth request, the one for the last page
C28_Witness ==
  \E l \in BagToSet(loads) : l.pc = "lastPage" /\ l.nreq = 4 /\ cachedData = <<>>

====
